---------------------------- MODULE Spec2Model ----------------------------
(***************************************************************************)
(* Model of tenable/sc/was_scan.py: the WAS-scan request builder           *)
(* (WasScanAPI._build_creation_or_update_request) and the client methods   *)
(* create, list, details, edit, delete and copy of WasScanAPI.             *)
(*                                                                         *)
(* Python values are tagged records, so that a string "5" and the integer  *)
(* 5 are different values; a dict is a function from key strings, a list   *)
(* argument is a tagged sequence, a tuple and a built JSON array are       *)
(* sequences.                                                              *)
(***************************************************************************)
EXTENDS Integers, Sequences, FiniteSets, TLC

VARIABLES
    call,          \* the client call being made: the method and its arguments
    result,        \* what the call gave back: a returned value or a raised exception
    sent,          \* the HTTP requests the call issued, in order
    nCalls,        \* calls made so far in this session
    nFailed,       \* calls of the session that raised
    nSent,         \* HTTP requests issued so far in this session
    noneAccepted   \* whether the base endpoint's _check hands a None object back (its default)
                   \* or rejects it; that code is outside this file

vars == <<call, result, sent, nCalls, nFailed, nSent, noneAccepted>>

---------------------------------------------------------------------------
(* Bounds of the model *)

\* optional keyword arguments per builder call (besides name)
MaxKw == 1
\* length of a reports / assets / credentials list
MaxList == 2
\* client calls per session
MaxCalls == 2

---------------------------------------------------------------------------
(* Python values *)

PyNone == [t |-> "none"]
PyInt(n) == [t |-> "int", i |-> n]
PyStr(s) == [t |-> "str", s |-> s]
PyBool(b) == [t |-> "bool", b |-> b]
PyList(l) == [t |-> "list", l |-> l]

\* Python truthiness of a value (`if x:`)
Truthy(v) ==
    CASE v.t = "none" -> FALSE
      [] v.t = "int" -> v.i # 0
      [] v.t = "str" -> v.s # ""
      [] v.t = "bool" -> v.b
      [] v.t = "list" -> Len(v.l) > 0

DigitChar(d) == <<"0", "1", "2", "3", "4", "5", "6", "7", "8", "9">>[d + 1]

RECURSIVE Digits(_)
Digits(n) == IF n < 10 THEN DigitChar(n) ELSE Digits(n \div 10) \o DigitChar(n % 10)

\* str(n) of an int: the decimal digits, with a leading minus sign below zero
IntToStr(n) == IF n < 0 THEN "-" \o Digits(0 - n) ELSE Digits(n)

\* str(v), also what an f-string's {v} formats
str(v) ==
    CASE v.t = "none" -> "None"
      [] v.t = "int" -> IntToStr(v.i)
      [] v.t = "str" -> v.s
      [] v.t = "bool" -> IF v.b THEN "True" ELSE "False"

---------------------------------------------------------------------------
(* Outcomes of a computation that may raise *)

Ok(v) == [ok |-> TRUE, val |-> v]
Raise(e, f) == [ok |-> FALSE, exc |-> e, field |-> f]

\* request[key] = value
Put(request, key, value) ==
    [k \in DOMAIN request \cup {key} |-> IF k = key THEN value ELSE request[k]]

EmptyDict == [k \in {} |-> PyNone]

\* SCEndpoint._check(name, obj, expected_type, choices=...): the object itself when it is
\* of the expected type and, with choices, one of them; a validation error naming the
\* field otherwise.  choices = {} stands for no choices given.
check(name, obj, expected, choices) ==
    IF obj.t = "none"
    THEN IF noneAccepted THEN Ok(PyNone) ELSE Raise("TypeError", name)
    ELSE IF obj.t # expected THEN Raise("TypeError", name)
    ELSE IF choices # {} /\ obj.s \notin choices THEN Raise("UnexpectedValueError", name)
    ELSE Ok(obj)

\* a faulty variant of _to_boolean_string: str(bool), which capitalises
BooleanStringCapitalised(boolean_value) == IF Truthy(boolean_value) THEN "True" ELSE "False"

_to_boolean_string(boolean_value) == IF Truthy(boolean_value) THEN "true" ELSE "false"

\* a faulty variant of StringOf: the number is handed on as it is
StringOfUnconverted(v) == v

\* str(kwargs[...]) as the builder stores it: a string value
StringOf(v) == PyStr(str(v))

\* a faulty variant of HasElements: the empty list is emitted too
HasElementsOrNone(list) == TRUE

\* len(list) > 0, the guard of the three list fields
HasElements(list) == Len(list.l) > 0

---------------------------------------------------------------------------
(* WasScanAPI._build_creation_or_update_request *)

api_route == "wasScan"

\* a faulty variant of ScheduleTypes: the docstring's "dependent" is let in
ScheduleTypesWithDependent == {"dependent", "ical", "never", "rollover", "template"}

ScheduleTypes == {"ical", "never", "rollover", "template"}
ReportSources == {"cumulative", "patched", "individual", "lce", "archive", "mobile"}
TimeoutActions == {"discard", "import", "rollover"}
RolloverTypes == {"nextDay", "template"}

\* the keyword arguments the builder consults, in the order it consults them
FieldOrder ==
    <<"name", "type", "description", "repository_id", "zone_id", "dhcpTracking",
      "classifyMitigatedAge", "schedule_type", "reports", "assets", "credentials",
      "emailOnLaunch", "emailOnFinish", "timeoutAction", "scanningVirtualHosts",
      "rolloverType", "urlList", "maxScanTime">>

\* one element of the reports / assets / credentials comprehension
ListElement(kind, e) ==
    CASE kind = "reports" ->
            LET id == check("report_id", e[1], "int", {})
                src == check("reportSource", e[2], "str", ReportSources)
            IN  IF ~id.ok THEN id
                ELSE IF ~src.ok THEN src
                ELSE Ok([id |-> id.val, reportSource |-> src.val])
      [] kind = "assets" ->
            LET id == check("asset", e, "int", {})
            IN  IF id.ok THEN Ok([id |-> id.val]) ELSE id
      [] kind = "credentials" ->
            LET id == check("credentials", e, "int", {})
            IN  IF id.ok THEN Ok([id |-> id.val]) ELSE id

\* the list comprehension: elements are built in order, the first failure raises
RECURSIVE ListComprehension(_, _, _, _)
ListComprehension(kind, list, i, acc) ==
    IF i > Len(list) THEN Ok(acc)
    ELSE LET e == ListElement(kind, list[i])
         IN  IF e.ok THEN ListComprehension(kind, list, i + 1, Append(acc, e.val))
             ELSE e

\* request[key] = the checked value, or the check's error
PutChecked(request, key, c) == IF c.ok THEN Ok(Put(request, key, c.val)) ELSE c

\* the `if ... in kwargs:` block of one keyword argument
BuildField(k, kwargs, request) ==
    IF k = "name"
    THEN IF "name" \notin DOMAIN kwargs THEN Raise("KeyError", "name")
         ELSE IF Truthy(kwargs["name"])
              THEN PutChecked(request, "name", check("name", kwargs["name"], "str", {}))
              ELSE Ok(request)
    ELSE IF k \notin DOMAIN kwargs THEN Ok(request)
    ELSE CASE k \in {"type", "description", "urlList"} ->
                PutChecked(request, k, check(k, kwargs[k], "str", {}))
           [] k = "repository_id" ->
                Ok(Put(request, "repository", [id |-> StringOf(kwargs[k])]))
           [] k = "zone_id" ->
                Ok(Put(request, "zone", [id |-> StringOf(kwargs[k])]))
           [] k \in {"dhcpTracking", "emailOnLaunch", "emailOnFinish", "scanningVirtualHosts"} ->
                Ok(Put(request, k, PyStr(_to_boolean_string(kwargs[k]))))
           [] k \in {"classifyMitigatedAge", "maxScanTime"} ->
                Ok(Put(request, k, StringOf(kwargs[k])))
           [] k = "schedule_type" ->
                LET c == check("schedule_type", kwargs[k], "str", ScheduleTypes)
                IN  IF c.ok THEN Ok(Put(request, "schedule", [type |-> c.val])) ELSE c
           [] k \in {"reports", "assets", "credentials"} ->
                IF HasElements(kwargs[k])
                THEN PutChecked(request, k, ListComprehension(k, kwargs[k].l, 1, <<>>))
                ELSE Ok(request)
           [] k = "timeoutAction" ->
                PutChecked(request, k, check(k, kwargs[k], "str", TimeoutActions))
           [] k = "rolloverType" ->
                PutChecked(request, k, check(k, kwargs[k], "str", RolloverTypes))

RECURSIVE BuildFrom(_, _, _)
BuildFrom(i, kwargs, request) ==
    IF i > Len(FieldOrder) THEN Ok(request)
    ELSE LET r == BuildField(FieldOrder[i], kwargs, request)
         IN  IF r.ok THEN BuildFrom(i + 1, kwargs, r.val) ELSE r

\* a faulty variant of the builder: a keyword argument it does not know is an error
BuildRejectingUnknown(kwargs) ==
    IF \E k \in DOMAIN kwargs : \A i \in 1..Len(FieldOrder) : FieldOrder[i] # k
    THEN Raise("TypeError", "kwargs")
    ELSE BuildFrom(1, kwargs, EmptyDict)

_build_creation_or_update_request(kwargs) == BuildFrom(1, kwargs, EmptyDict)

---------------------------------------------------------------------------
(* The client methods.  Each returns what the call gives back and the HTTP *)
(* requests it issued; body is the decoded JSON body the server replies    *)
(* with.                                                                   *)

Outcome(res, reqs) == [result |-> res, sent |-> reqs]

\* body['response']
Unwrap(body) ==
    IF "response" \in DOMAIN body THEN Ok(body["response"]) ELSE Raise("KeyError", "response")

\* ",".join(strings)
RECURSIVE Join(_, _)
Join(strings, i) ==
    IF i > Len(strings) THEN ""
    ELSE IF i = Len(strings) THEN strings[i].s
    ELSE strings[i].s \o "," \o Join(strings, i + 1)

\* [self._check("fields", f, str) for f in fields]
RECURSIVE CheckFields(_, _, _)
CheckFields(fields, i, acc) ==
    IF i > Len(fields) THEN Ok(acc)
    ELSE LET c == check("fields", fields[i], "str", {})
         IN  IF c.ok THEN CheckFields(fields, i + 1, Append(acc, c.val)) ELSE c

\* the params of list and details
FieldsParams(fields) ==
    IF Truthy(fields)
    THEN LET c == CheckFields(fields.l, 1, <<>>)
         IN  IF c.ok THEN Ok([fields |-> Join(c.val, 1)]) ELSE c
    ELSE Ok(EmptyDict)

\* a faulty variant of create: the POST goes out before the request is validated
createSendingFirst(kwargs, body) ==
    LET request == _build_creation_or_update_request(kwargs)
        post == [method |-> "POST", path |-> api_route,
                 json |-> IF request.ok THEN request.val ELSE EmptyDict]
    IN  IF ~request.ok THEN Outcome(request, <<post>>)
        ELSE Outcome(Unwrap(body), <<post>>)

create(kwargs, body) ==
    LET request == _build_creation_or_update_request(kwargs)
    IN  IF ~request.ok THEN Outcome(request, <<>>)
        ELSE Outcome(Unwrap(body),
                     <<[method |-> "POST", path |-> api_route, json |-> request.val]>>)

list(fields, body) ==
    LET params == FieldsParams(fields)
    IN  IF ~params.ok THEN Outcome(params, <<>>)
        ELSE Outcome(Unwrap(body),
                     <<[method |-> "GET", path |-> api_route, params |-> params.val]>>)

details(scan_id, fields, body) ==
    LET params == FieldsParams(fields)
    IN  IF ~params.ok THEN Outcome(params, <<>>)
        ELSE Outcome(Unwrap(body),
                     <<[method |-> "GET", path |-> api_route \o "/" \o str(scan_id),
                        params |-> params.val]>>)

edit(scan_id, kwargs, body) ==
    LET request == _build_creation_or_update_request(kwargs)
    IN  IF ~request.ok THEN Outcome(request, <<>>)
        ELSE Outcome(Unwrap(body),
                     <<[method |-> "PATCH", path |-> api_route \o "/" \o str(scan_id),
                        json |-> request.val]>>)

\* a faulty variant of delete: the body is unwrapped as in the other methods
deleteUnwrapped(scan_id, body) ==
    Outcome(Unwrap(body), <<[method |-> "DELETE", path |-> api_route \o "/" \o str(scan_id)]>>)

delete(scan_id, body) ==
    Outcome(Ok(body), <<[method |-> "DELETE", path |-> api_route \o "/" \o str(scan_id)]>>)

\* a faulty variant of CopyArgumentsRejected: only the call with neither is refused
CopyRejectedWhenNeither(scan_id, scan_uuid) == scan_id = PyNone /\ scan_uuid = PyNone

\* the guard of copy that raises ValueError
CopyArgumentsRejected(scan_id, scan_uuid) ==
    \/ (scan_id # PyNone /\ scan_uuid # PyNone)
    \/ (scan_id = PyNone /\ scan_uuid = PyNone)

\* the branch of copy that targets the scan by its id
CopyById(scan_id) == Truthy(scan_id)

copy(scan_id, scan_uuid, name, body) ==
    IF CopyArgumentsRejected(scan_id, scan_uuid)
    THEN Outcome(Raise("ValueError", "scan_id, scan_uuid"), <<>>)
    ELSE LET n == check("name", name, "str", {})
             byId == CopyById(scan_id)
             target == IF byId THEN check("scan_id", scan_id, "int", {})
                       ELSE check("scan_uuid", scan_uuid, "str", {})
             path == IF byId THEN api_route \o "/" \o str(scan_id) \o "/copy"
                     ELSE api_route \o "/" \o str(scan_uuid) \o "/copy"
         IN  IF ~n.ok THEN Outcome(n, <<>>)
             ELSE IF ~target.ok THEN Outcome(target, <<>>)
             ELSE Outcome(Unwrap(body),
                          <<[method |-> "POST", path |-> path,
                             json |-> [name |-> n.val,
                                       targetUser |-> IF byId THEN [id |-> target.val]
                                                      ELSE [uuid |-> target.val]]]>>)

---------------------------------------------------------------------------
(* Inputs *)

NameValues == {PyStr("scan"), PyStr(""), PyNone}
IntValues == {PyInt(0), PyInt(5), PyInt(-12)}
BoolValues == {PyBool(TRUE), PyBool(FALSE)}
TextValues == {PyStr("x"), PyInt(3)}

\* the lists over alphabet A of length at most n
RECURSIVE ListsUpTo(_, _)
ListsUpTo(A, n) ==
    IF n = 0 THEN {<<>>}
    ELSE LET shorter == ListsUpTo(A, n - 1)
         IN  shorter \cup {Append(l, a) : l \in shorter, a \in A}

ReportElements ==
    {<<PyInt(1), PyStr("cumulative")>>, <<PyInt(2), PyStr("mobile")>>,
     <<PyInt(3), PyStr("bogus")>>}
IdElements == {PyInt(1), PyInt(2), PyStr("x")}

\* the keyword arguments besides name; "foo" is one the builder does not know
OptionalKeys ==
    {"type", "description", "repository_id", "zone_id", "dhcpTracking",
     "classifyMitigatedAge", "schedule_type", "reports", "assets", "credentials",
     "emailOnLaunch", "emailOnFinish", "timeoutAction", "scanningVirtualHosts",
     "rolloverType", "urlList", "maxScanTime", "foo"}

ValuesOf(k) ==
    CASE k \in {"type", "description", "urlList"} -> TextValues
      [] k \in {"repository_id", "zone_id", "classifyMitigatedAge", "maxScanTime"} -> IntValues
      [] k \in {"dhcpTracking", "emailOnLaunch", "emailOnFinish", "scanningVirtualHosts"} ->
            BoolValues
      [] k = "schedule_type" -> {PyStr(v) : v \in ScheduleTypes \cup {"dependent"}}
      [] k = "timeoutAction" -> {PyStr(v) : v \in TimeoutActions \cup {"bogus"}}
      [] k = "rolloverType" -> {PyStr(v) : v \in RolloverTypes \cup {"nextday"}}
      [] k = "reports" ->
            {PyList(l) : l \in ListsUpTo(ReportElements, MaxList)}
            \cup {PyList(<<<<PyInt(4), PyStr(v)>>>>) : v \in ReportSources}
      [] k \in {"assets", "credentials"} -> {PyList(l) : l \in ListsUpTo(IdElements, MaxList)}
      [] k = "foo" -> {PyStr("x")}

\* S and every kwargs of S extended by up to n more keyword arguments out of keys
RECURSIVE Extended(_, _, _)
Extended(S, keys, n) ==
    IF n = 0 THEN S
    ELSE Extended(S \cup UNION {UNION {{Put(kw, k, v) : v \in ValuesOf(k)} :
                                       k \in keys \ DOMAIN kw} : kw \in S},
                  keys, n - 1)

NameKwargs == {EmptyDict} \cup {[name |-> v] : v \in NameValues}

\* what the builder is checked on: name (or none) and up to n more keyword arguments
BuilderKwargs(n) == Extended(NameKwargs, OptionalKeys, n)

\* what create and edit are called with in a session
ClientKeys == {"description", "rolloverType"}
ClientKwargs == Extended(NameKwargs, ClientKeys, Cardinality(ClientKeys))

ScanIds == {PyInt(1), PyInt(7)}
FieldLists ==
    {PyNone, PyList(<<>>), PyList(<<PyStr("id"), PyStr("name")>>),
     PyList(<<PyStr("id"), PyInt(3)>>)}
CopyIds == {PyNone, PyInt(0), PyInt(1)}
CopyUuids == {PyNone, PyStr(""), PyStr("u1")}
CopyNames == {PyNone, PyStr("n")}

\* the decoded JSON bodies the server replies with
Bodies ==
    {[type |-> PyStr("regular"), response |-> PyStr(""), error_code |-> PyInt(0)],
     [response |-> [id |-> PyStr("1"), name |-> PyStr("scan")]]}

---------------------------------------------------------------------------
(* The session: a sequence of client calls *)

NoCall == [op |-> "none"]
NoResult == [ok |-> FALSE, exc |-> "none", field |-> ""]

Init ==
    /\ call = NoCall
    /\ result = NoResult
    /\ sent = <<>>
    /\ nCalls = 0
    /\ nFailed = 0
    /\ nSent = 0
    /\ noneAccepted \in BOOLEAN

\* the call c ended with outcome o
Finish(c, o) ==
    /\ nCalls < MaxCalls
    /\ call' = c
    /\ result' = o.result
    /\ sent' = o.sent
    /\ nCalls' = nCalls + 1
    /\ nFailed' = IF o.result.ok THEN nFailed ELSE nFailed + 1
    /\ nSent' = nSent + Len(o.sent)
    /\ UNCHANGED noneAccepted

Create ==
    \E kw \in ClientKwargs, body \in Bodies :
        Finish([op |-> "create", kwargs |-> kw, body |-> body], create(kw, body))

List ==
    \E fields \in FieldLists, body \in Bodies :
        Finish([op |-> "list", fields |-> fields, body |-> body], list(fields, body))

Details ==
    \E id \in ScanIds, fields \in FieldLists, body \in Bodies :
        Finish([op |-> "details", scan_id |-> id, fields |-> fields, body |-> body],
               details(id, fields, body))

Edit ==
    \E id \in ScanIds, kw \in ClientKwargs, body \in Bodies :
        Finish([op |-> "edit", scan_id |-> id, kwargs |-> kw, body |-> body],
               edit(id, kw, body))

Delete ==
    \E id \in ScanIds, body \in Bodies :
        Finish([op |-> "delete", scan_id |-> id, body |-> body], delete(id, body))

Copy ==
    \E id \in CopyIds, uuid \in CopyUuids, name \in CopyNames, body \in Bodies :
        Finish([op |-> "copy", scan_id |-> id, scan_uuid |-> uuid, name |-> name,
                body |-> body],
               copy(id, uuid, name, body))

Next == Create \/ List \/ Details \/ Edit \/ Delete \/ Copy

Spec == Init /\ [][Next]_vars

---------------------------------------------------------------------------
(* The builder on its own: one call of it on each input *)

BuilderInit ==
    /\ call \in {[op |-> "build", kwargs |-> kw] : kw \in BuilderKwargs(MaxKw)}
    /\ result = NoResult
    /\ sent = <<>>
    /\ nCalls = 0
    /\ nFailed = 0
    /\ nSent = 0
    /\ noneAccepted = FALSE    \* no None reaches _check from these inputs

BuildRequest ==
    /\ call.op = "build"
    /\ result = NoResult
    /\ result' = _build_creation_or_update_request(call.kwargs)
    /\ UNCHANGED <<call, sent, nCalls, nFailed, nSent, noneAccepted>>

BuilderNext == BuildRequest

BuilderSpec == BuilderInit /\ [][BuilderNext]_vars

---------------------------------------------------------------------------
(* Properties of the client methods, under Spec *)

Builds == call.op \in {"create", "edit"}
Supplied(v) == v # PyNone

\* C1: create and edit fail, and send no HTTP request, whenever name is absent from the
\* keyword arguments or is falsy (the empty string in particular).  Any exception counts
\* as the failure here.
C1_NameRequired ==
    (Builds /\ ("name" \notin DOMAIN call.kwargs \/ ~Truthy(call.kwargs["name"])))
        => (~result.ok /\ sent = <<>>)

\* C2: a copy call given exactly one of scan_id / scan_uuid (scan_id = 0 included) and a
\* name posts to wasScan/{scan_id}/copy with targetUser {id: scan_id}, or to
\* wasScan/{scan_uuid}/copy with targetUser {uuid: scan_uuid}: path and key follow the
\* argument that was supplied.
C2_CopyTargetsSupplied ==
    (/\ call.op = "copy"
     /\ Supplied(call.scan_id) # Supplied(call.scan_uuid)
     /\ call.name.t = "str")
        => IF Supplied(call.scan_id)
           THEN sent = <<[method |-> "POST",
                          path |-> "wasScan/" \o ToString(call.scan_id.i) \o "/copy",
                          json |-> [name |-> call.name,
                                    targetUser |-> [id |-> call.scan_id]]]>>
           ELSE sent = <<[method |-> "POST",
                          path |-> "wasScan/" \o call.scan_uuid.s \o "/copy",
                          json |-> [name |-> call.name,
                                    targetUser |-> [uuid |-> call.scan_uuid]]]>>

\* C3: copy raises its validation error and sends nothing when both scan_id and scan_uuid
\* are supplied and when neither is; it sends a request only when exactly one is supplied.
C3_CopyExactlyOne ==
    call.op = "copy" =>
        /\ (Supplied(call.scan_id) = Supplied(call.scan_uuid))
               => (~result.ok /\ result.exc = "ValueError" /\ sent = <<>>)
        /\ sent # <<>> => (Supplied(call.scan_id) # Supplied(call.scan_uuid))

C3_Witness ==
    /\ call.op = "copy"
    /\ Supplied(call.scan_id) /\ Supplied(call.scan_uuid)
    /\ call.name = PyStr("n")
    /\ result = Raise("ValueError", "scan_id, scan_uuid")
    /\ sent = <<>>

\* C4: over a session of client calls, a call that raised sent no HTTP request and a call
\* that returned sent exactly one; create and edit send the whole built request, never
\* one cut short by a later field's failure.
C4_ValidationBeforeRequest ==
    /\ nSent = nCalls - nFailed
    /\ call.op # "none" =>
        /\ IF result.ok THEN Len(sent) = 1 ELSE sent = <<>>
        /\ (Builds /\ result.ok) =>
              LET built == _build_creation_or_update_request(call.kwargs)
              IN  built.ok /\ sent[1].json = built.val

\* the second call of a session: valid name and description, then an invalid rolloverType
C4_Witness ==
    /\ Builds
    /\ nCalls = 2 /\ nSent = 1
    /\ call.kwargs = [name |-> PyStr("scan"), description |-> PyStr("x"),
                      rolloverType |-> PyStr("nextday")]
    /\ result = Raise("UnexpectedValueError", "rolloverType")
    /\ sent = <<>>

\* C10: delete returns the whole decoded body; create, list, details, edit and copy
\* return the payload under its response key.
C10_DeleteReturnsBody ==
    (call.op # "none" /\ result.ok) =>
        IF call.op = "delete" THEN result.val = call.body
        ELSE result.val = call.body["response"]

C10_Witness ==
    /\ call.op = "delete"
    /\ call.scan_id = PyInt(7)
    /\ result.ok
    /\ DOMAIN result.val = {"type", "response", "error_code"}
    /\ sent = <<[method |-> "DELETE", path |-> "wasScan/7"]>>

---------------------------------------------------------------------------
(* Properties of the builder, under BuilderSpec *)

Built == call.op = "build" /\ result # NoResult
Given(k) == k \in DOMAIN call.kwargs

AllowedValues(k) ==
    CASE k = "schedule_type" -> {"ical", "never", "rollover", "template"}
      [] k = "timeoutAction" -> {"discard", "import", "rollover"}
      [] k = "rolloverType" -> {"nextDay", "template"}
      [] k = "reports" ->
            {"cumulative", "patched", "individual", "lce", "archive", "mobile"}

\* where the builder stores an accepted value of an enumerated field
Stored(k) == IF k = "schedule_type" THEN result.val["schedule"]["type"] ELSE result.val[k]

Recognised ==
    {"name", "type", "description", "repository_id", "zone_id", "dhcpTracking",
     "classifyMitigatedAge", "schedule_type", "reports", "assets", "credentials",
     "emailOnLaunch", "emailOnFinish", "timeoutAction", "scanningVirtualHosts",
     "rolloverType", "urlList", "maxScanTime"}

OutputKey(k) ==
    CASE k = "repository_id" -> "repository"
      [] k = "zone_id" -> "zone"
      [] k = "schedule_type" -> "schedule"
      [] OTHER -> k

Restricted(kwargs, keys) == [k \in DOMAIN kwargs \cap keys |-> kwargs[k]]

\* C6: a returned request holds only keys whose keyword argument was supplied, and the
\* keyword arguments the builder does not know change nothing: the outcome is that of
\* the call without them.
C6_OnlySuppliedKeys ==
    Built =>
        /\ result.ok =>
              DOMAIN result.val \subseteq
                  {OutputKey(k) : k \in DOMAIN call.kwargs \cap Recognised}
        /\ result = _build_creation_or_update_request(Restricted(call.kwargs, Recognised))

C6_Witness ==
    /\ Built
    /\ Given("foo") /\ Given("name")
    /\ result.ok
    /\ result.val = [name |-> PyStr("scan")]

ListKeys == {"reports", "assets", "credentials"}

Reshaped(k, e) == IF k = "reports" THEN [id |-> e[1], reportSource |-> e[2]] ELSE [id |-> e]

\* C7: in a returned request, reports / assets / credentials is absent when the supplied
\* list is empty, and otherwise is a list of the same length and order, each element
\* reshaped to {id, reportSource} or {id}; no empty array is emitted.
C7_ListFields ==
    (Built /\ result.ok) =>
        \A k \in ListKeys :
            /\ Given(k) =>
                  LET l == call.kwargs[k].l
                  IN  IF Len(l) = 0 THEN k \notin DOMAIN result.val
                      ELSE /\ k \in DOMAIN result.val
                           /\ Len(result.val[k]) = Len(l)
                           /\ \A i \in 1..Len(l) : result.val[k][i] = Reshaped(k, l[i])
            /\ k \in DOMAIN result.val => Len(result.val[k]) > 0

C7_Witness ==
    /\ Built
    /\ result.ok
    /\ Given("reports")
    /\ "reports" \in DOMAIN result.val
    /\ result.val["reports"] = <<[id |-> PyInt(2), reportSource |-> PyStr("mobile")],
                                 [id |-> PyInt(1), reportSource |-> PyStr("cumulative")]>>

\* C8: in a returned request repository.id, zone.id, classifyMitigatedAge and maxScanTime
\* are strings, the decimal form of the supplied integer, while the id of each reports,
\* assets and credentials element stays an integer.
C8_NumbersAsStrings ==
    (Built /\ result.ok) =>
        /\ \A k \in {"repository_id", "zone_id"} :
              Given(k) =>
                 result.val[OutputKey(k)] = [id |-> PyStr(ToString(call.kwargs[k].i))]
        /\ \A k \in {"classifyMitigatedAge", "maxScanTime"} :
              Given(k) => result.val[k] = PyStr(ToString(call.kwargs[k].i))
        /\ \A k \in ListKeys \cap DOMAIN result.val :
              \A i \in 1..Len(result.val[k]) : result.val[k][i].id.t = "int"

C8_Witness ==
    /\ Built
    /\ Given("repository_id")
    /\ call.kwargs["repository_id"] = PyInt(5)
    /\ result.ok
    /\ result.val["repository"] = [id |-> PyStr("5")]

BooleanKeys == {"dhcpTracking", "emailOnLaunch", "emailOnFinish", "scanningVirtualHosts"}

\* C9: a supplied dhcpTracking, emailOnLaunch, emailOnFinish or scanningVirtualHosts is
\* built as the string "true" for True and "false" for False, never as a native boolean.
C9_BooleanStrings ==
    (Built /\ result.ok) =>
        \A k \in BooleanKeys :
            /\ Given(k) =>
                  /\ call.kwargs[k] = PyBool(TRUE) => result.val[k] = PyStr("true")
                  /\ call.kwargs[k] = PyBool(FALSE) => result.val[k] = PyStr("false")
            /\ k \in DOMAIN result.val => result.val[k].t = "str"

C9_Witness ==
    /\ Built
    /\ Given("emailOnFinish")
    /\ call.kwargs["emailOnFinish"] = PyBool(FALSE)
    /\ result.ok
    /\ result.val["emailOnFinish"] = PyStr("false")

===========================================================================
